---------------------------- MODULE Spec2Model ----------------------------
(***************************************************************************)
(* deepseg (src/deepseg.cc): the capture thread (grab_thread) and the      *)
(* controller loop (main) sharing capinfo_t {grab, raw, cnt, lock}, the    *)
(* mask store calcinfo.mask and the v4l2loopback sink.                     *)
(***************************************************************************)
EXTENDS Integers, Sequences, FiniteSets, TLC

\* ------------------------------------------------------------------ bounds
\* frames the capture device delivers before it blocks for good
MaxCnt == 3
\* bytes of one converted (YUYV) frame: framesize = step[0]*rows
FrameBytes == 2
\* cells of the ROI part of the full-frame mask (written one after the other)
MaskCells == 2
\* consecutive capture failures that count as "repeated"
FailLimit == 2
\* largest frame and model-input side (pixels) the ROI is computed for
MaxDim == 4
\* most 4-byte words of padding in front of the metadata root vtable
MaxGap == 1
\* most validated fields of a metadata blob that are wrong at once
MaxCorrupt == 2
\* positions of the output tensor and of the small mask (output.total())
OutCells == 2
\* writes with val == 0 in a row that are counted
MaxRun == 4

\* ------------------------------------------------------- program constants
\* the two cv::Mat buffers buf1, buf2 of main and the NULL pointer
Bufs == {1, 2}
NULL == 0
\* calcinfo.raw after convert_rgb_to_yuyv: a Mat of its own, no camera buffer
OutMat == 3
\* values of the -d option: 0 (if (!debug) continue) and 2 (the key switch);
\* 1 leaves the loop body at if (debug < 2) continue and only prints more
DebugLevels == {0, 2}
\* cv::waitKey results the switch distinguishes, "-" for any other key
Keys == {"q", "s", "h", "v", "-"}
\* __LINE__ of the two TFLITE_MINIMAL_CHECKs inside the main loop
InvokeCheckLine == 420
WriteCheckLine == 693
\* size_t width = 640; size_t height = 480; the input side of the default
\* model (selfiesegmentation_mlkit-256x256)
DefaultWidth == 640
DefaultHeight == 480
DefaultInputSide == 256
\* a byte of info.ofinal that was never written (cv::Mat(rows, cols, CV_8UC1)
\* does not initialise its data): no byte value
Uninit == 256
\* cv::getStructuringElement(cv::MORPH_RECT, cv::Size(5,5)): cells on each
\* side of the anchor
ElementRadius == 2
\* float maxval = -10000 of the arg-max loop
MaxvalStart == -10000
\* the threshold 0.65 of the body-pix/selfie branch, in hundredths (as the
\* probabilities of those tensors)
Threshold == 65

VARIABLES
    gpc,          \* grab_thread: position in its loop
    done,         \* grab_thread: local flag done
    grabOk,       \* capture device: result of the last cap->grab()
    fails,        \* capture device: consecutive failed grab() calls
    gw,           \* buffer cap->retrieve() is writing into, NULL when none
    nframes,      \* capture device: retrieve() calls that have returned
    lock,         \* capinfo.lock: "none", "grabber" or "main"
    grab,         \* capinfo.grab
    raw,          \* capinfo.raw
    cnt,          \* capinfo.cnt
    buf,          \* pixel data of buf1, buf2
    mpc,          \* main: position in the loop
    oldcnt,       \* main: oldcnt
    craw,         \* calcinfo.raw: which pixel data its header shares
    filterActive, \* main: filterActive
    flipH,        \* main: flipHorizontal
    flipV,        \* main: flipVertical
    debug,        \* main: debug
    ofinal,       \* calcinfo.ofinal: frame the small mask was decoded from
    mask,         \* calcinfo.mask inside the ROI, per cell the frame it stems from
    mi,           \* cv::resize into info.mroi: cells already written
    yuyv,         \* the converted frame being written to the sink
    framesize,    \* main: framesize
    sink,         \* v4l2loopback: bytes accepted, of the cycle that wrote last
    processed,    \* frames the controller took up for processing, in order
    exitLine,     \* line printed by TFLITE_MINIMAL_CHECK before exit(1), 0 if none
    alive,        \* the process still runs
    tpc,          \* init_tensorflow: position
    width,        \* calcinfo.width
    height,       \* calcinfo.height
    input,        \* calcinfo.input: cols and rows of the input tensor
    ratio,        \* calcinfo.ratio, the quotient << numerator, denominator >>
    roidim,       \* calcinfo.roidim
    made,         \* what the TFLITE_METADATA buffer was built from
    metabuf,      \* bytes of the model's TFLITE_METADATA buffer, << >> if none
    rv,           \* init_tensorflow: rv of the parse_metadata call
    tmpmean,      \* init_tensorflow: tmpmean, the 4 bytes of the float
    tmpstdd,      \* init_tensorflow: tmpstdd, the 4 bytes of the float
    cpc,          \* calc_mask: position
    pixel,        \* calc_mask: one channel value of in_u8_rgb
    inval,        \* calc_mask: the value of info.input convertTo made of it
    modelname,    \* calcinfo.modelname, as the parts of the path
    labelmap,     \* lines of labelmap.txt in the model package, << >> if none
    ochans,       \* channels of the output tensor (dims->data[3])
    labels,       \* the global labels
    cnum,         \* the global cnum
    pers,         \* the global pers
    output,       \* data of the output tensor (tmp), << >> before an Invoke
    out,          \* data of info.ofinal (out)
    maskpx,       \* info.mask at the sampled columns of a row
    rawpx,        \* calcinfo.raw at the sampled columns: "cam" or "bg"
    pcell,        \* one position n: its channel values in the output tensor
    pbyte,        \* one position n: out[n]
    pprev,        \* one position n: out[n] before the last write to it
    pwrites,      \* one position n: writes to out[n] in the running cycle
    fgrun         \* one position n: last writes in a row with val == 0

vars == << gpc, done, grabOk, fails, gw, nframes, lock, grab, raw, cnt, buf, mpc, oldcnt,
           craw, filterActive, flipH, flipV, debug, ofinal, mask, mi, yuyv,
           framesize, sink, processed, exitLine, alive,
           tpc, width, height, input, ratio, roidim,
           made, metabuf, rv, tmpmean, tmpstdd, cpc, pixel, inval,
           modelname, labelmap, ochans, labels, cnum, pers, output, out,
           maskpx, rawpx, pcell, pbyte, pprev, pwrites, fgrun >>

grabberVars == << gpc, done, grabOk, fails, gw, nframes >>
mainVars == << mpc, oldcnt, craw, filterActive, flipH, flipV, debug, ofinal,
               mask, mi, yuyv, framesize, sink, processed, exitLine >>

\* the state init_tensorflow builds and calc_mask works on
tfVars == << tpc, width, height, input, ratio, roidim,
            made, metabuf, rv, tmpmean, tmpstdd, cpc, pixel, inval,
           modelname, labelmap, ochans, labels, cnum, pers, output, out,
           maskpx, rawpx, pcell, pbyte, pprev, pwrites, fgrun >>

posVars == << pcell, pbyte, pprev, pwrites, fgrun >>
roiVars == << width, height, input, ratio, roidim >>
metaVars == << made, metabuf, rv, tmpmean, tmpstdd >>
calcVars == << cpc, pixel, inval, output, out, maskpx, rawpx >>
labelVars == << modelname, labelmap, ochans, labels, cnum, pers >>

\* a default-constructed cv::Mat: rows == 0, cols == 0
EmptyMat == [seq |-> 0, comp |-> FALSE, fh |-> FALSE, fv |-> FALSE]
\* the frame the n-th retrieve() call delivers
CameraFrame(n) == [seq |-> n, comp |-> FALSE, fh |-> FALSE, fv |-> FALSE]

\* conversion of a float a/b (b > 0) to int: the fraction is cut off, towards 0
TruncDiv(a, b) == IF a >= 0 THEN a \div b ELSE -((-a) \div b)

\* cv::Rect((info.width-info.height/info.ratio)/2, 0, info.height/info.ratio,
\* info.height): float arithmetic, each member converted to int.  With
\* r = << n, d >> for the float n/d: height/ratio is height*d/n and the first
\* member (width*n - height*d)/(2*n).  (For sides up to 6, and for the
\* default sizes, the float quotients round to the same int as the exact ones.)
RoiRect(w, h, r) ==
    [x |-> TruncDiv(w * r[1] - h * r[2], 2 * r[1]),
     y |-> 0,
     width |-> TruncDiv(h * r[2], r[1]),
     height |-> h]

\* cv::Mat::operator()(const Rect&): the assertion a ROI has to pass
RoiInside(roi, cols, rows) ==
    /\ 0 <= roi.x /\ 0 <= roi.width /\ roi.x + roi.width <= cols
    /\ 0 <= roi.y /\ 0 <= roi.height /\ roi.y + roi.height <= rows

\* no cv::Rect computed yet
NoRect == [x |-> 0, y |-> 0, width |-> 0, height |-> 0]

\* --------------------------------------------------------- parse_metadata
\* buf[o], *(uint16_t *)(buf+o), *(uint32_t *)(buf+o), *(int32_t *)(buf+o):
\* little-endian reads at byte offset o (offsets and sizes stay below 2^31)
ByteAt(b, o) == b[o + 1]
U16At(b, o) == ByteAt(b, o) + 256 * ByteAt(b, o + 1)
U32At(b, o) == U16At(b, o) + 65536 * U16At(b, o + 2)
I32At(b, o) ==
    IF ByteAt(b, o + 3) >= 128
      THEN U16At(b, o) + 65536 * (U16At(b, o + 2) - 65536)
      ELSE U32At(b, o)
\* *(float *)(buf+o): the 4 bytes of the float
FloatAt(b, o) == << ByteAt(b, o), ByteAt(b, o + 1), ByteAt(b, o + 2), ByteAt(b, o + 3) >>

\* the characters "M001" and "v1" the parser compares with
IdentM001 == << 77, 48, 48, 49 >>
CharV == 118
Char1 == 49

\* return N before the outputs are written: *pmean and *pstdd keep their values
ParseFail(n, pmean, pstdd) == [rv |-> n, mean |-> pmean, stdd |-> pstdd]

\* ParseProcessUnits with the two field offsets of the normalization vtable
\* read in the other order
ParseProcessUnitsStdFirst(b, itmd1, otmpus, pmean, pstdd) ==
    LET itpuv == U32At(b, itmd1 + otmpus) + (itmd1 + otmpus)
    IN  IF I32At(b, itpuv) # 1 THEN ParseFail(-5, pmean, pstdd)
        ELSE
        LET itpu1 == U32At(b, itpuv + 4) + (itpuv + 4)
            puvtb == itpu1 - I32At(b, itpu1)
            oopid == U16At(b, puvtb + 4)
            oopvl == U16At(b, puvtb + 6)
        IN  IF ByteAt(b, itpu1 + oopid) # 1 THEN ParseFail(-6, pmean, pstdd)
            ELSE
            LET norm == U32At(b, itpu1 + oopvl) + (itpu1 + oopvl)
                novtb == norm - I32At(b, norm)
                onstd == U16At(b, novtb + 4)
                onmean == U16At(b, novtb + 6)
                nomeanv == U32At(b, norm + onmean) + (norm + onmean)
                nostdv == U32At(b, norm + onstd) + (norm + onstd)
            IN  IF I32At(b, nomeanv) # 1 THEN ParseFail(-7, pmean, pstdd)
                ELSE IF I32At(b, nostdv) # 1 THEN ParseFail(-8, pmean, pstdd)
                ELSE [rv |-> 0,
                      mean |-> FloatAt(b, nomeanv + 4),
                      stdd |-> FloatAt(b, nostdv + 4)]

\* parse_metadata steps 15 to 26: process units, normalization options,
\* the mean and std arrays
ParseProcessUnits(b, itmd1, otmpus, pmean, pstdd) ==
    LET itpuv == U32At(b, itmd1 + otmpus) + (itmd1 + otmpus)
    IN  IF I32At(b, itpuv) # 1 THEN ParseFail(-5, pmean, pstdd)
        ELSE
        LET itpu1 == U32At(b, itpuv + 4) + (itpuv + 4)
            puvtb == itpu1 - I32At(b, itpu1)
            oopid == U16At(b, puvtb + 4)
            oopvl == U16At(b, puvtb + 6)
        IN  IF ByteAt(b, itpu1 + oopid) # 1 THEN ParseFail(-6, pmean, pstdd)
            ELSE
            LET norm == U32At(b, itpu1 + oopvl) + (itpu1 + oopvl)
                novtb == norm - I32At(b, norm)
                onmean == U16At(b, novtb + 4)
                onstd == U16At(b, novtb + 6)
                nomeanv == U32At(b, norm + onmean) + (norm + onmean)
                nostdv == U32At(b, norm + onstd) + (norm + onstd)
            IN  IF I32At(b, nomeanv) # 1 THEN ParseFail(-7, pmean, pstdd)
                ELSE IF I32At(b, nostdv) # 1 THEN ParseFail(-8, pmean, pstdd)
                ELSE [rv |-> 0,
                      mean |-> FloatAt(b, nomeanv + 4),
                      stdd |-> FloatAt(b, nostdv + 4)]

\* ParseSubgraphs returning the status of the subgraph count for the tensor
\* metadata count as well
ParseSubgraphsSameStatus(b, root, osubg, pmean, pstdd) ==
    LET subv == U32At(b, root + osubg) + (root + osubg)
    IN  IF I32At(b, subv) # 1 THEN ParseFail(-3, pmean, pstdd)
        ELSE
        LET sub1 == U32At(b, subv + 4) + (subv + 4)
            svtb == sub1 - I32At(b, sub1)
            oitmd == U16At(b, svtb + 8)
            itmdv == U32At(b, sub1 + oitmd) + (sub1 + oitmd)
        IN  IF I32At(b, itmdv) # 1 THEN ParseFail(-3, pmean, pstdd)
            ELSE
            LET itmd1 == U32At(b, itmdv + 4) + (itmdv + 4)
                itvtb == itmd1 - I32At(b, itmd1)
                otmpus == U16At(b, itvtb + 12)
            IN  ParseProcessUnits(b, itmd1, otmpus, pmean, pstdd)

\* parse_metadata steps 5 to 14: subgraph vector, first subgraph, input
\* tensor metadata vector, first tensor metadata
ParseSubgraphs(b, root, osubg, pmean, pstdd) ==
    LET subv == U32At(b, root + osubg) + (root + osubg)
    IN  IF I32At(b, subv) # 1 THEN ParseFail(-3, pmean, pstdd)
        ELSE
        LET sub1 == U32At(b, subv + 4) + (subv + 4)
            svtb == sub1 - I32At(b, sub1)
            oitmd == U16At(b, svtb + 8)
            itmdv == U32At(b, sub1 + oitmd) + (sub1 + oitmd)
        IN  IF I32At(b, itmdv) # 1 THEN ParseFail(-4, pmean, pstdd)
            ELSE
            LET itmd1 == U32At(b, itmdv + 4) + (itmdv + 4)
                itvtb == itmd1 - I32At(b, itmd1)
                otmpus == U16At(b, itvtb + 12)
            IN  ParseProcessUnits(b, itmd1, otmpus, pmean, pstdd)

\* parse_metadata(buf, size, pmean, pstdd): the value returned and the values
\* of *pmean and *pstdd afterwards (size is not used by the code)
parse_metadata(b, pmean, pstdd) ==
    LET root == U32At(b, 0)
        rvtb == root - I32At(b, root)
    IN  IF rvtb >= 8 /\ SubSeq(b, 5, 8) # IdentM001 THEN ParseFail(1, pmean, pstdd)
        ELSE
        LET overs == U16At(b, rvtb + 8)
            osubg == U16At(b, rvtb + 10)
            vers == U32At(b, root + overs) + (root + overs)
        IN  IF I32At(b, vers) # 2 THEN ParseFail(-1, pmean, pstdd)
            ELSE IF ByteAt(b, vers + 4) # CharV \/ ByteAt(b, vers + 5) # Char1
                   THEN ParseFail(-2, pmean, pstdd)
            ELSE ParseSubgraphs(b, root, osubg, pmean, pstdd)

\* ------------------------------------------------------ metadata buffers
\* the floats 0.0, 127.5 and 128.0 as their 4 bytes, low byte first
Float0 == << 0, 0, 0, 0 >>
Floats == { Float0, << 0, 0, 255, 66 >>, << 0, 0, 0, 67 >> }

\* the markers and counts parse_metadata validates, in the order it does
Fields == << "ident", "verslen", "verstext", "subcount", "tmcount", "pucount",
             "optid", "meanlen", "stdlen" >>
FieldSet == { Fields[i] : i \in 1..Len(Fields) }

LE16(n) == << n % 256, n \div 256 >>
LE32(n) == LE16(n % 65536) \o LE16(n \div 65536)
Zeros(k) == [i \in 1..k |-> 0]

\* a ModelMetadata flatbuffer (metadata_schema.fbs) as the builder lays it
\* out: root offset, file identifier, gap words of padding, then per table
\* its vtable and the table, each vector after the table that refers to it;
\* one subgraph, one input tensor, one NormalizationOptions process unit
\* with mean m and std s, the two arrays in either order
ValidBlob(m, s, gap, swap) ==
    LE32(20 + 4 * gap) \o IdentM001 \o Zeros(4 * gap)
    \o LE16(12) \o LE16(12) \o LE16(0) \o LE16(0) \o LE16(4) \o LE16(8)
    \o LE32(12) \o LE32(8) \o LE32(12)
    \o LE32(2) \o << CharV, Char1, 0, 0 >>
    \o LE32(1) \o LE32(16)
    \o LE16(10) \o LE16(8) \o LE16(0) \o LE16(0) \o LE16(4) \o LE16(0)
    \o LE32(12) \o LE32(4)
    \o LE32(1) \o LE32(20)
    \o LE16(14) \o LE16(8) \o LE16(0) \o LE16(0) \o LE16(0) \o LE16(0)
        \o LE16(4) \o LE16(0)
    \o LE32(16) \o LE32(4)
    \o LE32(1) \o LE32(12)
    \o LE16(8) \o LE16(12) \o LE16(4) \o LE16(8)
    \o LE32(8) \o << 1, 0, 0, 0 >> \o LE32(12)
    \o LE16(8) \o LE16(12) \o LE16(4) \o LE16(8)
    \o LE32(8) \o LE32(IF swap THEN 16 ELSE 8) \o LE32(IF swap THEN 4 ELSE 12)
    \o LE32(1) \o (IF swap THEN s ELSE m)
    \o LE32(1) \o (IF swap THEN m ELSE s)

\* byte offset of a validated field in ValidBlob(m, s, gap, swap)
FieldOffset(f, gap, swap) ==
    LET base == 8 + 4 * gap
    IN  CASE f = "ident" -> 4
          [] f = "verslen" -> base + 24
          [] f = "verstext" -> base + 29
          [] f = "subcount" -> base + 32
          [] f = "tmcount" -> base + 60
          [] f = "pucount" -> base + 92
          [] f = "optid" -> base + 112
          [] f = "meanlen" -> base + (IF swap THEN 148 ELSE 140)
          [] f = "stdlen" -> base + (IF swap THEN 140 ELSE 148)

\* the buffer built from d: the valid blob with the low byte of every field
\* of d.wrong changed by d.delta
Blob(d) ==
    LET b == ValidBlob(d.mean, d.stdd, d.gap, d.swap)
        offs == { FieldOffset(f, d.gap, d.swap) : f \in d.wrong }
    IN  [i \in 1..Len(b) |-> IF (i - 1) \in offs THEN (b[i] + d.delta) % 256 ELSE b[i]]

\* a model without TFLITE_METADATA
NoBlob == [mean |-> Float0, stdd |-> Float0, gap |-> 0, swap |-> FALSE,
           wrong |-> {}, delta |-> 0]

\* in_u8_rgb.convertTo(info.input, CV_32FC3, 1.0/128.0, -1.0): the float
\* p * (1.0/128.0) + (-1.0) as a quotient
AlphaDiv == 128
Beta == -1
ConvertTo(p) == [num |-> p + Beta * AlphaDiv, den |-> AlphaDiv]
\* channel values of the resized, filtered ROI
Pixels == {0, 255}

\* ----------------------------------------------------- labels, model names
\* static std::vector<std::string> labels: the deeplabv3 classes
BuiltinLabels ==
    << "background", "aeroplane", "bicycle", "bird", "boat", "bottle", "bus",
       "car", "cat", "chair", "cow", "dining table", "dog", "horse",
       "motorbike", "person", "potted plant", "sheep", "sofa", "train", "tv" >>

\* std::distance(labels.begin(), std::find(labels.begin(), labels.end(), name))
FindLabel(ls, name) ==
    IF \E i \in 1..Len(ls) : ls[i] = name
      THEN (CHOOSE i \in 1..Len(ls) :
              ls[i] = name /\ \A j \in 1..(i - 1) : ls[j] # name) - 1
      ELSE Len(ls)

\* strstr(name, pat) != NULL, the name being given as the parts of the path
\* and pat being one of the parts the code looks for
StrStr(name, pat) == \E i \in 1..Len(name) : name[i] = pat

\* const char* modelname of main (the default model)
DefaultModelName ==
    << "models/", "selfie", "segmentation_mlkit-256x256-2021_01_19-v1215.f16.tflite" >>

\* model packages: file name, lines of labelmap.txt (none: << >>), channels
\* of the output tensor
ModelFiles ==
    { [name |-> << "models/", "deeplab", "v3_257_mv_gpu.tflite" >>,
       labelmap |-> << >>, chans |-> Len(BuiltinLabels)],
      [name |-> << "models/", "deeplab", "_pf.tflite" >>,
       labelmap |-> << "person", "background" >>, chans |-> 2],
      [name |-> << "models/", "deeplab", "_pets.tflite" >>,
       labelmap |-> << "background", "dog" >>, chans |-> 2],
      [name |-> << "models/", "body-pix", "_float_050.tflite" >>,
       labelmap |-> << >>, chans |-> 1],
      [name |-> DefaultModelName, labelmap |-> << >>, chans |-> 1],
      [name |-> << "models/", "segm_", "full_v679.tflite" >>,
       labelmap |-> << >>, chans |-> 2],
      [name |-> << "models/", "mymodel.tflite" >>,
       labelmap |-> << >>, chans |-> 1],
      [name |-> << "models/", "deeplab", "_", "selfie", ".tflite" >>,
       labelmap |-> << >>, chans |-> Len(BuiltinLabels)] }

\* ------------------------------------------------------- calc_mask: decode
\* Smooth with the previous byte shifted by 2
SmoothShift2(val, prev) == (val \div 32) * 32 + prev \div 4

\* (val & 0xE0) | (prev >> 3) for bytes val and prev: the two parts share no bit
Smooth(val, prev) == (val \div 32) * 32 + prev \div 8

\* tmp[i]
Tmp(data, i) == data[i + 1]

\* for (size_t i = 0; i < cnum; i++) if (tmp[n*cnum+i] > maxval) { maxval =
\* tmp[n*cnum+i]; maxpos = i; }: maxpos at the end of the loop, from index i on
RECURSIVE MaxPos(_, _, _, _, _, _)
MaxPos(data, n, c, i, maxval, maxpos) ==
    IF i >= c THEN maxpos
    ELSE IF Tmp(data, n * c + i) > maxval
           THEN MaxPos(data, n, c, i + 1, Tmp(data, n * c + i), i)
           ELSE MaxPos(data, n, c, i + 1, maxval, maxpos)

\* if (strstr(info.modelname, "deeplab")): out[n] for every n
DeepLabDecode(data, o, c, p) ==
    [n \in 1..Len(o) |->
        Smooth(IF MaxPos(data, n - 1, c, 0, MaxvalStart, 0) = p THEN 0 ELSE 255, o[n])]

\* if (strstr(..., "body-pix") || strstr(..., "selfie")): out[n] for every n
ThresholdDecode(data, o) ==
    [n \in 1..Len(o) |->
        Smooth(IF Tmp(data, n - 1) > Threshold THEN 0 ELSE 255, o[n])]

\* expf(x) in thousandths, for the logits the model draws
Expf(x) == CASE x = 1 -> 2718 [] x = 5 -> 148413

\* exp0 / (exp0 + exp1), in thousandths
Quot(a, b) == (a * 1000) \div b

\* SegmVal with the tie decided for the person
SegmValLe(t0, t1) ==
    LET exp0 == Expf(t0)
        exp1 == Expf(t1)
        p0 == Quot(exp0, exp0 + exp1)
        p1 == Quot(exp1, exp0 + exp1)
    IN  IF p0 <= p1 THEN 0 ELSE 255

\* uint8_t val = (p0 < p1 ? 0 : 255) for the logits t0, t1
SegmVal(t0, t1) ==
    LET exp0 == Expf(t0)
        exp1 == Expf(t1)
        p0 == Quot(exp0, exp0 + exp1)
        p1 == Quot(exp1, exp0 + exp1)
    IN  IF p0 < p1 THEN 0 ELSE 255

\* if (strstr(info.modelname, "segm_")): out[n] for every n
SoftmaxDecode(data, o) ==
    [n \in 1..Len(o) |->
        Smooth(SegmVal(Tmp(data, 2 * (n - 1)), Tmp(data, 2 * (n - 1) + 1)), o[n])]

\* the three if statements of calc_mask, one after the other
Decode(name, data, o, c, p) ==
    LET o1 == IF StrStr(name, "deeplab") THEN DeepLabDecode(data, o, c, p) ELSE o
        o2 == IF StrStr(name, "body-pix") \/ StrStr(name, "selfie")
                THEN ThresholdDecode(data, o1) ELSE o1
    IN  IF StrStr(name, "segm_") THEN SoftmaxDecode(data, o2) ELSE o2

\* the values never-written bytes can turn out to hold when they are read
UninitBytes == {0, 8, 255}
\* the contents a read of o can find: written bytes as they are
Resolve(o) ==
    { [k \in 1..Len(o) |-> IF o[k] = Uninit THEN u[k] ELSE o[k]] :
        u \in [1..Len(o) -> UninitBytes] }

\* largest and smallest element of a non-empty set of numbers
MaxOf(S) == CHOOSE x \in S : \A y \in S : y <= x
MinOf(S) == CHOOSE x \in S : \A y \in S : x <= y

\* the cells of a row the structuring element covers when anchored at k
Window(k, len) == { j \in 1..len : j >= k - ElementRadius /\ j <= k + ElementRadius }
\* cv::dilate and cv::erode on a row (cells beyond the border do not count)
Dilate(o) == [k \in 1..Len(o) |-> MaxOf({ o[j] : j \in Window(k, Len(o)) })]
Erode(o) == [k \in 1..Len(o) |-> MinOf({ o[j] : j \in Window(k, Len(o)) })]

\* ------------------------------------------------- full-frame mask, frame
\* columns of a row the model looks at: the first and the last of the frame,
\* of the ROI, and the ones next to the ROI
SampleCols(w, roi) ==
    { 0, roi.x - 1, roi.x, roi.x + roi.width - 1, roi.x + roi.width, w - 1 }
        \cap (0..(w - 1))

InRoi(c, roi) == roi.x <= c /\ c < roi.x + roi.width

\* cv::resize of the small mask into the ROI: the cell a ROI column takes
\* its value from. cv::resize interpolates between neighbouring cells; after
\* the closing with the 5x5 element the rows of this size hold one value, so
\* the interpolated value is the value of the cell
SourceCell(c, roi, len) == ((c - roi.x) * len) \div roi.width + 1

\* no single position of the small mask is followed
PositionIdle ==
    pcell = << >> /\ pbyte = 0 /\ pprev = 0 /\ pwrites = 0 /\ fgrun = 0

\* main at pthread_create: the loop's variables and the capture thread
InitLoop ==
    /\ gpc = "grab" /\ done = FALSE /\ grabOk = TRUE /\ fails = 0 /\ gw = NULL
    /\ nframes = 0
    /\ lock = "none"
    /\ grab = 1 /\ raw = 2 /\ cnt = 0
    /\ buf = [b \in Bufs |-> EmptyMat]
    /\ mpc = "wait" /\ oldcnt = 0
    /\ craw = NULL
    /\ filterActive = TRUE
    /\ flipH \in BOOLEAN /\ flipV \in BOOLEAN
    /\ debug \in DebugLevels
    /\ ofinal = 0
    /\ mask = [c \in 1..MaskCells |-> 0]
    /\ mi = 0
    /\ yuyv = EmptyMat
    /\ framesize = 0
    /\ sink = [cyc |-> 0, bytes |-> << >>]
    /\ processed = << >>
    /\ exitLine = 0
    /\ alive = TRUE

\* deepseg run without -w, -h and -m: init_tensorflow has returned
Init ==
    /\ InitLoop
    /\ tpc = "done"
    /\ width = DefaultWidth /\ height = DefaultHeight
    /\ input = [cols |-> DefaultInputSide, rows |-> DefaultInputSide]
    /\ ratio = << DefaultInputSide, DefaultInputSide >>
    /\ roidim = RoiRect(DefaultWidth, DefaultHeight,
                        << DefaultInputSide, DefaultInputSide >>)
    /\ made = NoBlob /\ metabuf = << >>
    /\ rv = 0 /\ tmpmean = Float0 /\ tmpstdd = Float0
    /\ cpc = "idle" /\ pixel = 0 /\ inval = ConvertTo(0)
    /\ modelname = DefaultModelName /\ labelmap = << >> /\ ochans = 1
    /\ labels = BuiltinLabels /\ cnum = Len(BuiltinLabels)
    /\ pers = FindLabel(BuiltinLabels, "person")
    /\ output = << >>
    /\ out = [k \in 1..OutCells |-> Uninit]
    /\ maskpx = [c \in SampleCols(DefaultWidth,
                                   RoiRect(DefaultWidth, DefaultHeight,
                                           << DefaultInputSide, DefaultInputSide >>))
                    |-> 1]
    /\ rawpx = << >>
    /\ PositionIdle

\* ------------------------------------------------------------ grab_thread
\* ci->cap->grab() returns (blocking call, made outside the lock; its result
\* is not looked at)
GrabCall ==
    /\ alive /\ gpc = "grab"
    /\ (cnt < MaxCnt \/ grab = NULL)
    /\ \E ok \in BOOLEAN :
         /\ grabOk' = ok
         /\ fails' = IF ok THEN 0 ELSE IF fails < FailLimit THEN fails + 1 ELSE fails
    /\ gpc' = "lock"
    /\ UNCHANGED << done, gw, nframes, lock, grab, raw, cnt, buf, alive >>
    /\ UNCHANGED mainVars
    /\ UNCHANGED tfVars

\* pthread_mutex_lock(&ci->lock)
GrabLock ==
    /\ alive /\ gpc = "lock" /\ lock = "none"
    /\ lock' = "grabber"
    /\ gpc' = "crit"
    /\ UNCHANGED << done, grabOk, fails, gw, nframes, grab, raw, cnt, buf, alive >>
    /\ UNCHANGED mainVars
    /\ UNCHANGED tfVars

\* if (ci->grab != NULL): ci->cap->retrieve(*ci->grab) starts writing
RetrieveBegin ==
    /\ alive /\ gpc = "crit" /\ grab # NULL
    /\ gw' = grab
    /\ gpc' = "retrieving"
    /\ UNCHANGED << done, grabOk, fails, nframes, lock, grab, raw, cnt, buf, alive >>
    /\ UNCHANGED mainVars
    /\ UNCHANGED tfVars

\* retrieve() returns: the new frame after a good grab(), an empty Mat after
\* a failed one
RetrieveEnd ==
    /\ alive /\ gpc = "retrieving"
    /\ buf' = [buf EXCEPT ![gw] = IF grabOk THEN CameraFrame(nframes + 1) ELSE EmptyMat]
    /\ nframes' = nframes + 1
    /\ gw' = NULL
    /\ gpc' = "inc"
    /\ UNCHANGED << done, grabOk, fails, lock, grab, raw, cnt, alive >>
    /\ UNCHANGED mainVars
    /\ UNCHANGED tfVars

\* GrabDone with the assignment to done left out
GrabDoneNotSet ==
    /\ alive /\ gpc = "crit" /\ grab = NULL
    /\ gpc' = "inc"
    /\ UNCHANGED << done, grabOk, fails, gw, nframes, lock, grab, raw, cnt, buf, alive >>
    /\ UNCHANGED mainVars
    /\ UNCHANGED tfVars

\* else done = true
GrabDone ==
    /\ alive /\ gpc = "crit" /\ grab = NULL
    /\ done' = TRUE
    /\ gpc' = "inc"
    /\ UNCHANGED << grabOk, fails, gw, nframes, lock, grab, raw, cnt, buf, alive >>
    /\ UNCHANGED mainVars
    /\ UNCHANGED tfVars

\* ci->cnt++
GrabCount ==
    /\ alive /\ gpc = "inc"
    /\ cnt' = cnt + 1
    /\ gpc' = "unlock"
    /\ UNCHANGED << done, grabOk, fails, gw, nframes, lock, grab, raw, buf, alive >>
    /\ UNCHANGED mainVars
    /\ UNCHANGED tfVars

\* pthread_mutex_unlock(&ci->lock); while (!done)
GrabUnlock ==
    /\ alive /\ gpc = "unlock"
    /\ lock' = "none"
    /\ gpc' = IF done THEN "exited" ELSE "grab"
    /\ UNCHANGED << done, grabOk, fails, gw, nframes, grab, raw, cnt, buf, alive >>
    /\ UNCHANGED mainVars
    /\ UNCHANGED tfVars

grab_thread ==
    \/ GrabCall
    \/ GrabLock
    \/ RetrieveBegin
    \/ RetrieveEnd
    \/ GrabDone
    \/ GrabCount
    \/ GrabUnlock

\* ------------------------------------------------------------------- main
\* the bytes of the converted frame, each named by its place in the frame,
\* and the bytes a write() that returns n accepted: write() is always given
\* calcinfo.raw.data, the first byte of the frame, and the count framesize
FrameData == [i \in 1..FrameBytes |-> i]
WriteBytes(n) == SubSeq(FrameData, 1, n)

\* MainWait without the poll: the loop is left whatever the counter holds
MainWaitNoPoll ==
    /\ alive /\ mpc = "wait"
    /\ mpc' = "observe"
    /\ UNCHANGED << oldcnt, craw, filterActive, flipH, flipV, debug, ofinal, mask,
                    mi, yuyv, framesize, sink, processed, exitLine >>
    /\ UNCHANGED << lock, grab, raw, cnt, buf, alive >>
    /\ UNCHANGED grabberVars
    /\ UNCHANGED tfVars

\* while (capinfo.cnt == oldcnt) usleep(10000): the loop is left
MainWait ==
    /\ alive /\ mpc = "wait"
    /\ cnt # oldcnt
    /\ mpc' = "observe"
    /\ UNCHANGED << oldcnt, craw, filterActive, flipH, flipV, debug, ofinal, mask,
                    mi, yuyv, framesize, sink, processed, exitLine >>
    /\ UNCHANGED << lock, grab, raw, cnt, buf, alive >>
    /\ UNCHANGED grabberVars
    /\ UNCHANGED tfVars

\* MainObserve stepping to the next sequence number, as the consumer of a
\* frame queue would
MainObserveNext ==
    /\ alive /\ mpc = "observe"
    /\ oldcnt' = oldcnt + 1
    /\ mpc' = "lock"
    /\ UNCHANGED << craw, filterActive, flipH, flipV, debug, ofinal, mask,
                    mi, yuyv, framesize, sink, processed, exitLine >>
    /\ UNCHANGED << lock, grab, raw, cnt, buf, alive >>
    /\ UNCHANGED grabberVars
    /\ UNCHANGED tfVars

\* oldcnt = capinfo.cnt (a second read of cnt, not under the lock)
MainObserve ==
    /\ alive /\ mpc = "observe"
    /\ oldcnt' = cnt
    /\ mpc' = "lock"
    /\ UNCHANGED << craw, filterActive, flipH, flipV, debug, ofinal, mask,
                    mi, yuyv, framesize, sink, processed, exitLine >>
    /\ UNCHANGED << lock, grab, raw, cnt, buf, alive >>
    /\ UNCHANGED grabberVars
    /\ UNCHANGED tfVars

\* pthread_mutex_lock(&capinfo.lock)
MainLock ==
    /\ alive /\ mpc = "lock" /\ lock = "none"
    /\ lock' = "main"
    /\ mpc' = "swap"
    /\ UNCHANGED << oldcnt, craw, filterActive, flipH, flipV, debug, ofinal, mask,
                    mi, yuyv, framesize, sink, processed, exitLine >>
    /\ UNCHANGED << grab, raw, cnt, buf, alive >>
    /\ UNCHANGED grabberVars
    /\ UNCHANGED tfVars

\* MainSwap without the temporary: capinfo.raw is not given the grab buffer
MainSwapNoTmat ==
    /\ alive /\ mpc = "swap"
    /\ grab' = raw
    /\ mpc' = "unlock"
    /\ UNCHANGED << oldcnt, craw, filterActive, flipH, flipV, debug, ofinal, mask,
                    mi, yuyv, framesize, sink, processed, exitLine >>
    /\ UNCHANGED << lock, raw, cnt, buf, alive >>
    /\ UNCHANGED grabberVars
    /\ UNCHANGED tfVars

\* tmat = capinfo.grab; capinfo.grab = capinfo.raw; capinfo.raw = tmat
MainSwap ==
    /\ alive /\ mpc = "swap"
    /\ grab' = raw
    /\ raw' = grab
    /\ mpc' = "unlock"
    /\ UNCHANGED << oldcnt, craw, filterActive, flipH, flipV, debug, ofinal, mask,
                    mi, yuyv, framesize, sink, processed, exitLine >>
    /\ UNCHANGED << lock, cnt, buf, alive >>
    /\ UNCHANGED grabberVars
    /\ UNCHANGED tfVars

\* MainUnlock with the unlock call left out
MainUnlockKeepsLock ==
    /\ alive /\ mpc = "unlock"
    /\ mpc' = "copy"
    /\ UNCHANGED << oldcnt, craw, filterActive, flipH, flipV, debug, ofinal, mask,
                    mi, yuyv, framesize, sink, processed, exitLine >>
    /\ UNCHANGED << lock, grab, raw, cnt, buf, alive >>
    /\ UNCHANGED grabberVars
    /\ UNCHANGED tfVars

\* pthread_mutex_unlock(&capinfo.lock)
MainUnlock ==
    /\ alive /\ mpc = "unlock"
    /\ lock' = "none"
    /\ mpc' = "copy"
    /\ UNCHANGED << oldcnt, craw, filterActive, flipH, flipV, debug, ofinal, mask,
                    mi, yuyv, framesize, sink, processed, exitLine >>
    /\ UNCHANGED << grab, raw, cnt, buf, alive >>
    /\ UNCHANGED grabberVars
    /\ UNCHANGED tfVars

\* calcinfo.raw = *capinfo.raw: a header copy that shares the pixel data
MainCopy ==
    /\ alive /\ mpc = "copy"
    /\ craw' = raw
    /\ mpc' = "check"
    /\ UNCHANGED << oldcnt, filterActive, flipH, flipV, debug, ofinal, mask,
                    mi, yuyv, framesize, sink, processed, exitLine >>
    /\ UNCHANGED << lock, grab, raw, cnt, buf, alive >>
    /\ UNCHANGED grabberVars
    /\ UNCHANGED tfVars

\* MainCheck with the sanity check left out
MainCheckNoSanity ==
    /\ alive /\ mpc = "check"
    /\ mpc' = IF filterActive THEN "invoke" ELSE "flip"
    /\ processed' = Append(processed, buf[craw].seq)
    /\ UNCHANGED << oldcnt, craw, filterActive, flipH, flipV, debug, ofinal, mask,
                    mi, yuyv, framesize, sink, exitLine >>
    /\ UNCHANGED << lock, grab, raw, cnt, buf, alive >>
    /\ UNCHANGED grabberVars
    /\ UNCHANGED tfVars

\* if (calcinfo.raw.rows == 0 || calcinfo.raw.cols == 0) continue;
\* if (filterActive) ...
MainCheck ==
    /\ alive /\ mpc = "check"
    /\ IF buf[craw].seq = 0
         THEN /\ mpc' = "wait"
              /\ UNCHANGED processed
         ELSE /\ mpc' = IF filterActive THEN "invoke" ELSE "flip"
              /\ processed' = Append(processed, buf[craw].seq)
    /\ UNCHANGED << oldcnt, craw, filterActive, flipH, flipV, debug, ofinal, mask,
                    mi, yuyv, framesize, sink, exitLine >>
    /\ UNCHANGED << lock, grab, raw, cnt, buf, alive >>
    /\ UNCHANGED grabberVars
    /\ UNCHANGED tfVars

\* MainInvoke with a check that prints the error and does not exit
MainInvokeLogOnly ==
    /\ alive /\ mpc = "invoke"
    /\ \E ok \in BOOLEAN :
         exitLine' = IF ok THEN exitLine ELSE InvokeCheckLine
    /\ mpc' = "decode"
    /\ UNCHANGED << oldcnt, craw, filterActive, flipH, flipV, debug, ofinal, mask,
                    mi, yuyv, framesize, sink, processed >>
    /\ UNCHANGED << lock, grab, raw, cnt, buf, alive >>
    /\ UNCHANGED grabberVars
    /\ UNCHANGED tfVars

\* calc_mask up to TFLITE_MINIMAL_CHECK(interpreter->Invoke() == kTfLiteOk)
MainInvoke ==
    /\ alive /\ mpc = "invoke"
    /\ \E ok \in BOOLEAN :
         IF ok THEN /\ mpc' = "decode"
                    /\ UNCHANGED exitLine
               ELSE /\ mpc' = "exit1"
                    /\ exitLine' = InvokeCheckLine
    /\ UNCHANGED << oldcnt, craw, filterActive, flipH, flipV, debug, ofinal, mask,
                    mi, yuyv, framesize, sink, processed >>
    /\ UNCHANGED << lock, grab, raw, cnt, buf, alive >>
    /\ UNCHANGED grabberVars
    /\ UNCHANGED tfVars

\* calc_mask: decode of the output tensor into info.ofinal, dilate, erode
MainDecode ==
    /\ alive /\ mpc = "decode"
    /\ ofinal' = buf[craw].seq
    /\ mi' = 0
    /\ mpc' = "resize"
    /\ UNCHANGED << oldcnt, craw, filterActive, flipH, flipV, debug, mask,
                    yuyv, framesize, sink, processed, exitLine >>
    /\ UNCHANGED << lock, grab, raw, cnt, buf, alive >>
    /\ UNCHANGED grabberVars
    /\ UNCHANGED tfVars

\* MainResize returning after the first cell
MainResizeOneCell ==
    /\ alive /\ mpc = "resize"
    /\ mask' = [mask EXCEPT ![mi + 1] = ofinal]
    /\ mi' = mi + 1
    /\ mpc' = "compose"
    /\ UNCHANGED << oldcnt, craw, filterActive, flipH, flipV, debug, ofinal,
                    yuyv, framesize, sink, processed, exitLine >>
    /\ UNCHANGED << lock, grab, raw, cnt, buf, alive >>
    /\ UNCHANGED grabberVars
    /\ UNCHANGED tfVars

\* cv::resize(info.ofinal, info.mroi, ...): the next cell of the mask store,
\* written with no lock held
MainResize ==
    /\ alive /\ mpc = "resize"
    /\ mask' = [mask EXCEPT ![mi + 1] = ofinal]
    /\ mi' = mi + 1
    /\ mpc' = IF mi + 1 = MaskCells THEN "compose" ELSE "resize"
    /\ UNCHANGED << oldcnt, craw, filterActive, flipH, flipV, debug, ofinal,
                    yuyv, framesize, sink, processed, exitLine >>
    /\ UNCHANGED << lock, grab, raw, cnt, buf, alive >>
    /\ UNCHANGED grabberVars
    /\ UNCHANGED tfVars

\* bg.copyTo(calcinfo.raw, calcinfo.mask): in place, in the camera buffer
MainCompose ==
    /\ alive /\ mpc = "compose"
    /\ buf' = [buf EXCEPT ![craw].comp = TRUE]
    /\ mpc' = "flip"
    /\ UNCHANGED << oldcnt, craw, filterActive, flipH, flipV, debug, ofinal, mask,
                    mi, yuyv, framesize, sink, processed, exitLine >>
    /\ UNCHANGED << lock, grab, raw, cnt, alive >>
    /\ UNCHANGED grabberVars
    /\ UNCHANGED tfVars

\* cv::flip(calcinfo.raw, calcinfo.raw, -1 | 1 | 0): in place
MainFlip ==
    /\ alive /\ mpc = "flip"
    /\ buf' = [buf EXCEPT ![craw].fh = (@ # flipH), ![craw].fv = (@ # flipV)]
    /\ mpc' = "convert"
    /\ UNCHANGED << oldcnt, craw, filterActive, flipH, flipV, debug, ofinal, mask,
                    mi, yuyv, framesize, sink, processed, exitLine >>
    /\ UNCHANGED << lock, grab, raw, cnt, alive >>
    /\ UNCHANGED grabberVars
    /\ UNCHANGED tfVars

\* calcinfo.raw = convert_rgb_to_yuyv(calcinfo.raw);
\* framesize = calcinfo.raw.step[0]*calcinfo.raw.rows
MainConvert ==
    /\ alive /\ mpc = "convert"
    /\ yuyv' = buf[craw]
    /\ craw' = OutMat
    /\ framesize' = FrameBytes
    /\ mpc' = "write"
    /\ UNCHANGED << oldcnt, filterActive, flipH, flipV, debug, ofinal, mask,
                    mi, sink, processed, exitLine >>
    /\ UNCHANGED << lock, grab, raw, cnt, buf, alive >>
    /\ UNCHANGED grabberVars
    /\ UNCHANGED tfVars

\* one pass of while (framesize > 0): ret = write(lbfd, calcinfo.raw.data,
\* framesize); TFLITE_MINIMAL_CHECK(ret > 0); framesize -= ret
MainWrite ==
    /\ alive /\ mpc = "write"
    /\ framesize > 0
    /\ \E ret \in (-1)..framesize :
         IF ret > 0
           THEN /\ sink' = [cyc |-> oldcnt,
                            bytes |-> (IF sink.cyc = oldcnt THEN sink.bytes ELSE << >>)
                                        \o WriteBytes(ret)]
                /\ framesize' = framesize - ret
                /\ mpc' = "write"
                /\ UNCHANGED exitLine
           ELSE /\ mpc' = "exit1"
                /\ exitLine' = WriteCheckLine
                /\ UNCHANGED << sink, framesize >>
    /\ UNCHANGED << oldcnt, craw, filterActive, flipH, flipV, debug, ofinal, mask,
                    mi, yuyv, processed >>
    /\ UNCHANGED << lock, grab, raw, cnt, buf, alive >>
    /\ UNCHANGED grabberVars
    /\ UNCHANGED tfVars

\* the write loop is left with framesize == 0 (framesize never gets negative:
\* write returns at most the count it was given)
MainWritten ==
    /\ alive /\ mpc = "write"
    /\ framesize = 0
    /\ mpc' = "report"
    /\ UNCHANGED << oldcnt, craw, filterActive, flipH, flipV, debug, ofinal, mask,
                    mi, yuyv, framesize, sink, processed, exitLine >>
    /\ UNCHANGED << lock, grab, raw, cnt, buf, alive >>
    /\ UNCHANGED grabberVars
    /\ UNCHANGED tfVars

\* if (!debug) continue; ... if (debug < 2) continue; switch (cv::waitKey(1))
MainReport ==
    /\ alive /\ mpc = "report"
    /\ IF debug < 2
         THEN /\ mpc' = "wait"
              /\ UNCHANGED << filterActive, flipH, flipV >>
         ELSE \E keyPress \in Keys :
                /\ mpc' = IF keyPress = "q" THEN "stop" ELSE "wait"
                /\ filterActive' = IF keyPress = "s" THEN ~filterActive ELSE filterActive
                /\ flipH' = IF keyPress = "h" THEN ~flipH ELSE flipH
                /\ flipV' = IF keyPress = "v" THEN ~flipV ELSE flipV
    /\ UNCHANGED << oldcnt, craw, debug, ofinal, mask,
                    mi, yuyv, framesize, sink, processed, exitLine >>
    /\ UNCHANGED << lock, grab, raw, cnt, buf, alive >>
    /\ UNCHANGED grabberVars
    /\ UNCHANGED tfVars

\* after the loop: pthread_mutex_lock(&capinfo.lock)
MainStopLock ==
    /\ alive /\ mpc = "stop" /\ lock = "none"
    /\ lock' = "main"
    /\ mpc' = "stop_null"
    /\ UNCHANGED << oldcnt, craw, filterActive, flipH, flipV, debug, ofinal, mask,
                    mi, yuyv, framesize, sink, processed, exitLine >>
    /\ UNCHANGED << grab, raw, cnt, buf, alive >>
    /\ UNCHANGED grabberVars
    /\ UNCHANGED tfVars

\* capinfo.grab = NULL
MainStopNull ==
    /\ alive /\ mpc = "stop_null"
    /\ grab' = NULL
    /\ mpc' = "stop_unlock"
    /\ UNCHANGED << oldcnt, craw, filterActive, flipH, flipV, debug, ofinal, mask,
                    mi, yuyv, framesize, sink, processed, exitLine >>
    /\ UNCHANGED << lock, raw, cnt, buf, alive >>
    /\ UNCHANGED grabberVars
    /\ UNCHANGED tfVars

\* pthread_mutex_unlock(&capinfo.lock)
MainStopUnlock ==
    /\ alive /\ mpc = "stop_unlock"
    /\ lock' = "none"
    /\ mpc' = "stopped"
    /\ UNCHANGED << oldcnt, craw, filterActive, flipH, flipV, debug, ofinal, mask,
                    mi, yuyv, framesize, sink, processed, exitLine >>
    /\ UNCHANGED << grab, raw, cnt, buf, alive >>
    /\ UNCHANGED grabberVars
    /\ UNCHANGED tfVars

\* printf("\n"); return 0: main's frame (capinfo, cap, buf1, buf2) is gone,
\* the capture thread was not joined
MainReturn ==
    /\ alive /\ mpc = "stopped"
    /\ mpc' = "returned"
    /\ UNCHANGED << oldcnt, craw, filterActive, flipH, flipV, debug, ofinal, mask,
                    mi, yuyv, framesize, sink, processed, exitLine >>
    /\ UNCHANGED << lock, grab, raw, cnt, buf, alive >>
    /\ UNCHANGED grabberVars
    /\ UNCHANGED tfVars

main ==
    \/ MainWait
    \/ MainObserve
    \/ MainLock
    \/ MainSwap
    \/ MainUnlock
    \/ MainCopy
    \/ MainCheck
    \/ MainInvoke
    \/ MainDecode
    \/ MainResize
    \/ MainCompose
    \/ MainFlip
    \/ MainConvert
    \/ MainWrite
    \/ MainWritten
    \/ MainReport
    \/ MainStopLock
    \/ MainStopNull
    \/ MainStopUnlock
    \/ MainReturn

\* ---------------------------------------------------------------- process
\* exit(1) of TFLITE_MINIMAL_CHECK, or the exit that follows main's return:
\* the process ends and the capture thread with it
ProcessExit ==
    /\ alive /\ mpc \in {"exit1", "returned"}
    /\ alive' = FALSE
    /\ UNCHANGED << lock, grab, raw, cnt, buf >>
    /\ UNCHANGED grabberVars /\ UNCHANGED mainVars
    /\ UNCHANGED tfVars

\* the capture thread runs on after main returned: ci points into main's dead
\* frame.  Either the memory still holds what main left there (the thread's
\* own actions above), or the thread reads garbage and the process dies of it
GrabDangling ==
    /\ alive /\ mpc = "returned"
    /\ gpc \notin {"exited", "crashed"}
    /\ gpc' = "crashed"
    /\ alive' = FALSE
    /\ UNCHANGED << done, grabOk, fails, gw, nframes, lock, grab, raw, cnt, buf >>
    /\ UNCHANGED mainVars
    /\ UNCHANGED tfVars

Next ==
    \/ grab_thread
    \/ main
    \/ ProcessExit
    \/ GrabDangling

Spec == Init /\ [][Next]_vars

\* ---------------------------------------------------------------- fairness
\* deepseg -d -d with the mirror options left at their defaults: the run in
\* which the key switch is reached, so the loop can end by the stop flag as
\* well as by a failed check
InitDebug == Init /\ debug = 2 /\ ~flipH /\ ~flipV

\* both threads are scheduled, and an exit that has begun completes
FairSpec ==
    /\ InitDebug /\ [][Next]_vars
    /\ WF_vars(grab_thread) /\ WF_vars(main) /\ WF_vars(ProcessExit)

\* -------------------------------------------------------- init_tensorflow
\* info.input = getTensorMat(...); info.ratio = (float)info.input.cols /
\* (float)info.input.rows
GetTensors ==
    /\ alive /\ tpc = "tensors"
    /\ ratio' = << input.cols, input.rows >>
    /\ tpc' = "metadata"
    /\ UNCHANGED << width, height, input, roidim >>
    /\ UNCHANGED metaVars /\ UNCHANGED calcVars /\ UNCHANGED labelVars
    /\ UNCHANGED << lock, grab, raw, cnt, buf, alive >>
    /\ UNCHANGED grabberVars /\ UNCHANGED mainVars /\ UNCHANGED posVars

\* float tmpmean = 0, tmpstdd = 0; for the TFLITE_METADATA entry of
\* model->metadata(), if there is one: rv = parse_metadata(...);
\* if (rv) printf("unable to parse TfLite metadata: %d\n", rv)
ParseMetadata ==
    /\ alive /\ tpc = "metadata"
    /\ IF metabuf = << >>
         THEN UNCHANGED << rv, tmpmean, tmpstdd >>
         ELSE LET r == parse_metadata(metabuf, tmpmean, tmpstdd)
              IN  /\ rv' = r.rv
                  /\ tmpmean' = r.mean
                  /\ tmpstdd' = r.stdd
    /\ tpc' = "labels"
    /\ UNCHANGED << made, metabuf >>
    /\ UNCHANGED roiVars /\ UNCHANGED calcVars /\ UNCHANGED labelVars
    /\ UNCHANGED << lock, grab, raw, cnt, buf, alive >>
    /\ UNCHANGED grabberVars /\ UNCHANGED mainVars /\ UNCHANGED posVars

\* LoadLabels with the index of the last label when "person" is not found
LoadLabelsClamped ==
    /\ alive /\ tpc = "labels"
    /\ IF Len(labelmap) > 0
         THEN /\ labels' = labelmap
              /\ cnum' = Len(labelmap)
              /\ pers' = IF FindLabel(labelmap, "person") = Len(labelmap)
                           THEN Len(labelmap) - 1
                           ELSE FindLabel(labelmap, "person")
         ELSE UNCHANGED << labels, cnum, pers >>
    /\ tpc' = "roi"
    /\ UNCHANGED << modelname, labelmap, ochans >>
    /\ UNCHANGED roiVars /\ UNCHANGED metaVars /\ UNCHANGED calcVars
    /\ UNCHANGED << lock, grab, raw, cnt, buf, alive >>
    /\ UNCHANGED grabberVars /\ UNCHANGED mainVars /\ UNCHANGED posVars

\* tmplabs = read_labels(info.modelname); if (tmplabs.size() > 0) { labels =
\* tmplabs; cnum = labels.size(); pers = std::distance(...) }
LoadLabels ==
    /\ alive /\ tpc = "labels"
    /\ IF Len(labelmap) > 0
         THEN /\ labels' = labelmap
              /\ cnum' = Len(labelmap)
              /\ pers' = FindLabel(labelmap, "person")
         ELSE UNCHANGED << labels, cnum, pers >>
    /\ tpc' = "roi"
    /\ UNCHANGED << modelname, labelmap, ochans >>
    /\ UNCHANGED roiVars /\ UNCHANGED metaVars /\ UNCHANGED calcVars
    /\ UNCHANGED << lock, grab, raw, cnt, buf, alive >>
    /\ UNCHANGED grabberVars /\ UNCHANGED mainVars /\ UNCHANGED posVars

\* info.roidim = cv::Rect(...); info.mask = cv::Mat::ones(height, width);
\* info.mroi = info.mask(info.roidim): a ROI that is not inside the mask
\* fails the assertion of cv::Mat::operator(), the exception ends the process
MakeRoi ==
    /\ alive /\ tpc = "roi"
    /\ roidim' = RoiRect(width, height, ratio)
    /\ maskpx' = [c \in SampleCols(width, roidim') |-> 1]
    /\ tpc' = IF RoiInside(roidim', width, height) THEN "ofinal" ELSE "abort"
    /\ UNCHANGED << width, height, input, ratio >>
    /\ UNCHANGED << cpc, pixel, inval, output, out, rawpx >>
    /\ UNCHANGED metaVars /\ UNCHANGED labelVars
    /\ UNCHANGED << lock, grab, raw, cnt, buf, alive >>
    /\ UNCHANGED grabberVars /\ UNCHANGED mainVars /\ UNCHANGED posVars

\* info.element = ...; info.ofinal = cv::Mat(info.output.rows,
\* info.output.cols, CV_8UC1): allocated, not initialised
MakeOfinal ==
    /\ alive /\ tpc = "ofinal"
    /\ out' = [k \in 1..OutCells |-> Uninit]
    /\ tpc' = "done"
    /\ UNCHANGED << cpc, pixel, inval, output, maskpx, rawpx >>
    /\ UNCHANGED roiVars /\ UNCHANGED metaVars /\ UNCHANGED labelVars
    /\ UNCHANGED << lock, grab, raw, cnt, buf, alive >>
    /\ UNCHANGED grabberVars /\ UNCHANGED mainVars /\ UNCHANGED posVars

init_tensorflow ==
    \/ GetTensors
    \/ ParseMetadata
    \/ LoadLabels
    \/ MakeRoi
    \/ MakeOfinal

\* main before init_tensorflow: calcinfo's members beyond debug are zero or
\* empty, the globals labels, cnum and pers hold the built-in classes
BeforeInitTf ==
    /\ InitLoop /\ ~flipH /\ ~flipV /\ debug = 0
    /\ tpc = "tensors"
    /\ ratio = << 0, 1 >>
    /\ roidim = NoRect
    /\ rv = 0 /\ tmpmean = Float0 /\ tmpstdd = Float0
    /\ pixel = 0 /\ inval = ConvertTo(0)
    /\ labels = BuiltinLabels /\ cnum = Len(BuiltinLabels)
    /\ pers = FindLabel(BuiltinLabels, "person")
    /\ output = << >> /\ out = << >> /\ maskpx = << >> /\ rawpx = << >>

\* main before init_tensorflow: -w and -h given (sscanf, neither 0), a model
\* with any input shape loaded; calcinfo's other members are zero
InitRoi ==
    /\ BeforeInitTf
    /\ width \in 1..MaxDim /\ height \in 1..MaxDim
    /\ input \in [cols : 1..MaxDim, rows : 1..MaxDim]
    /\ made = NoBlob /\ metabuf = << >>
    /\ modelname = DefaultModelName /\ labelmap = << >> /\ ochans = 1
    /\ cpc = "idle"
    /\ PositionIdle

SpecRoi == InitRoi /\ [][init_tensorflow]_vars

\* -------------------------------------------------------------- calc_mask
\* main: calcinfo.raw = *capinfo.raw, a frame that is not empty, with
\* filterActive: calc_mask is called
TakeFrame ==
    /\ alive /\ tpc = "done" /\ cpc \in {"frame", "composed"}
    /\ rawpx' = [c \in SampleCols(width, roidim) |-> "cam"]
    /\ cpc' = "normalize"
    /\ UNCHANGED << pixel, inval, output, out, maskpx >>
    /\ UNCHANGED tpc /\ UNCHANGED roiVars /\ UNCHANGED metaVars /\ UNCHANGED labelVars
    /\ UNCHANGED << lock, grab, raw, cnt, buf, alive >>
    /\ UNCHANGED grabberVars /\ UNCHANGED mainVars /\ UNCHANGED posVars

\* calc_mask from its entry to in_u8_rgb.convertTo(info.input, ...): the ROI
\* resized, colour-converted, filtered, then every channel value converted
CalcNormalize ==
    /\ alive /\ tpc = "done" /\ cpc = "normalize"
    /\ \E p \in Pixels :
         /\ pixel' = p
         /\ inval' = ConvertTo(p)
    /\ cpc' = "invoke"
    /\ UNCHANGED << output, out, maskpx, rawpx >>
    /\ UNCHANGED tpc /\ UNCHANGED roiVars /\ UNCHANGED metaVars /\ UNCHANGED labelVars
    /\ UNCHANGED << lock, grab, raw, cnt, buf, alive >>
    /\ UNCHANGED grabberVars /\ UNCHANGED mainVars /\ UNCHANGED posVars

\* ----------------------------------- the output tensor interpreter writes
\* channel vectors of one cell of a class tensor: one class ahead of the
\* others, all classes level, and values at and below calc_mask's starting
\* maximum with class i the largest
Hot(c, i) == [j \in 1..c |-> IF j = i + 1 THEN 5 ELSE 1]
Flat(c) == [j \in 1..c |-> 1]
Low(c, i) == [j \in 1..c |-> IF j = i + 1 THEN MaxvalStart ELSE 2 * MaxvalStart]

\* the channel vectors a cell of the output tensor can hold, by model family:
\* class scores, a probability in hundredths, or two logits
CellVectors(name, c, p) ==
    IF StrStr(name, "deeplab")
      THEN LET last == c - 1
               q == IF p < c THEN p ELSE last
           IN  { Hot(c, i) : i \in {0, q, last} } \cup { Flat(c), Low(c, q) }
    ELSE IF StrStr(name, "segm_")
      THEN { << 5, 1 >>, << 1, 5 >>, << 1, 1 >> }
    ELSE { << 50 >>, << Threshold >>, << 70 >> }

\* info.output.data: the cells' channel vectors one after the other
Flatten(f, c) ==
    [j \in 1..(Len(f) * c) |-> f[((j - 1) \div c) + 1][((j - 1) % c) + 1]]

Tensors(name, c, p) ==
    { Flatten(f, c) : f \in [1..OutCells -> CellVectors(name, c, p)] }

\* ----------------------------------------------------- calc_mask, the rest
\* TFLITE_MINIMAL_CHECK(interpreter->Invoke() == kTfLiteOk): the output
\* tensor is written, or the program exits with status 1
CalcInvoke ==
    /\ alive /\ tpc = "done" /\ cpc = "invoke"
    /\ \E ok \in BOOLEAN :
         IF ok
           THEN /\ output' \in Tensors(modelname, ochans, pers)
                /\ cpc' = "decode"
           ELSE /\ cpc' = "exit1"
                /\ UNCHANGED output
    /\ UNCHANGED << pixel, inval, out, maskpx, rawpx >>
    /\ UNCHANGED tpc /\ UNCHANGED roiVars /\ UNCHANGED metaVars /\ UNCHANGED labelVars
    /\ UNCHANGED << lock, grab, raw, cnt, buf, alive >>
    /\ UNCHANGED grabberVars /\ UNCHANGED mainVars /\ UNCHANGED posVars

\* does one of the three if statements of calc_mask take the model name
Decodes(name) ==
    \/ StrStr(name, "deeplab")
    \/ StrStr(name, "body-pix") \/ StrStr(name, "selfie")
    \/ StrStr(name, "segm_")

\* calc_mask from float* tmp to ti.maskns: each if statement that takes the
\* name reads and rewrites every byte of ofinal; with none, ofinal is left
CalcDecode ==
    /\ alive /\ tpc = "done" /\ cpc = "decode"
    /\ IF Decodes(modelname)
         THEN \E r \in Resolve(out) :
                 out' = Decode(modelname, output, r, cnum, pers)
         ELSE UNCHANGED out
    /\ cpc' = "denoise"
    /\ UNCHANGED << pixel, inval, output, maskpx, rawpx >>
    /\ UNCHANGED tpc /\ UNCHANGED roiVars /\ UNCHANGED metaVars /\ UNCHANGED labelVars
    /\ UNCHANGED << lock, grab, raw, cnt, buf, alive >>
    /\ UNCHANGED grabberVars /\ UNCHANGED mainVars /\ UNCHANGED posVars

\* cv::dilate(info.ofinal, tmpbuf, info.element); cv::erode(tmpbuf,
\* info.ofinal, info.element)
CalcDenoise ==
    /\ alive /\ tpc = "done" /\ cpc = "denoise"
    /\ \E r \in Resolve(out) : out' = Erode(Dilate(r))
    /\ cpc' = "resize"
    /\ UNCHANGED << pixel, inval, output, maskpx, rawpx >>
    /\ UNCHANGED tpc /\ UNCHANGED roiVars /\ UNCHANGED metaVars /\ UNCHANGED labelVars
    /\ UNCHANGED << lock, grab, raw, cnt, buf, alive >>
    /\ UNCHANGED grabberVars /\ UNCHANGED mainVars /\ UNCHANGED posVars

\* cv::resize(info.ofinal, info.mroi, ...): mroi is the ROI of info.mask, the
\* rest of info.mask keeps the ones of init_tensorflow
CalcResize ==
    /\ alive /\ tpc = "done" /\ cpc = "resize"
    /\ maskpx' = [c \in DOMAIN maskpx |->
                     IF InRoi(c, roidim)
                       THEN out[SourceCell(c, roidim, Len(out))]
                       ELSE maskpx[c]]
    /\ cpc' = "compose"
    /\ UNCHANGED << pixel, inval, output, out, rawpx >>
    /\ UNCHANGED tpc /\ UNCHANGED roiVars /\ UNCHANGED metaVars /\ UNCHANGED labelVars
    /\ UNCHANGED << lock, grab, raw, cnt, buf, alive >>
    /\ UNCHANGED grabberVars /\ UNCHANGED mainVars /\ UNCHANGED posVars

\* bg.copyTo(calcinfo.raw, calcinfo.mask): the background's pixel wherever the
\* mask is not zero
CopyBackground ==
    /\ alive /\ tpc = "done" /\ cpc = "compose"
    /\ rawpx' = [c \in DOMAIN rawpx |-> IF maskpx[c] # 0 THEN "bg" ELSE rawpx[c]]
    /\ cpc' = "composed"
    /\ UNCHANGED << pixel, inval, output, out, maskpx >>
    /\ UNCHANGED tpc /\ UNCHANGED roiVars /\ UNCHANGED metaVars /\ UNCHANGED labelVars
    /\ UNCHANGED << lock, grab, raw, cnt, buf, alive >>
    /\ UNCHANGED grabberVars /\ UNCHANGED mainVars /\ UNCHANGED posVars

\* one filtered cycle of main's loop, without the capture thread
MaskCycle ==
    \/ TakeFrame
    \/ CalcNormalize
    \/ CalcInvoke
    \/ CalcDecode
    \/ CalcDenoise
    \/ CalcResize
    \/ CopyBackground

\* main before init_tensorflow, default sizes, a model file of one of the
\* families without metadata
InitMask ==
    /\ BeforeInitTf
    /\ width = DefaultWidth /\ height = DefaultHeight
    /\ input = [cols |-> DefaultInputSide, rows |-> DefaultInputSide]
    /\ made = NoBlob /\ metabuf = << >>
    /\ \E m \in ModelFiles :
         /\ modelname = m.name
         /\ labelmap = m.labelmap
         /\ ochans = m.chans
    /\ cpc = "frame"
    /\ PositionIdle

SpecMask == InitMask /\ [][init_tensorflow \/ MaskCycle]_vars

\* ------------------------------- calc_mask: one position n of the decode
\* a write out[n] = b: the byte before it is kept, the writes of the cycle
\* and the writes with val == 0 (the upper three bits of b are 0) in a row
\* are counted
PosWrite(b) ==
    /\ pprev' = pbyte
    /\ pbyte' = b
    /\ pwrites' = pwrites + 1
    /\ fgrun' = IF b < 32
                  THEN (IF fgrun < MaxRun THEN fgrun + 1 ELSE fgrun)
                  ELSE 0

\* TFLITE_MINIMAL_CHECK(interpreter->Invoke() == kTfLiteOk); float* tmp = ...:
\* the channel values of position n are there, or the program exits
PosInvoke ==
    /\ alive /\ tpc = "done" /\ cpc = "invoke_n"
    /\ \E ok \in BOOLEAN :
         IF ok
           THEN /\ pcell' \in CellVectors(modelname, ochans, pers)
                /\ cpc' = "if_deeplab"
           ELSE /\ cpc' = "exit1"
                /\ UNCHANGED pcell
    /\ pwrites' = 0
    /\ UNCHANGED << pbyte, pprev, fgrun >>
    /\ UNCHANGED << pixel, inval, output, out, maskpx, rawpx >>
    /\ UNCHANGED tpc /\ UNCHANGED roiVars /\ UNCHANGED metaVars /\ UNCHANGED labelVars
    /\ UNCHANGED << lock, grab, raw, cnt, buf, alive >>
    /\ UNCHANGED grabberVars /\ UNCHANGED mainVars

\* if (strstr(info.modelname, "deeplab")) { ... out[n] = ... }
IfDeepLab ==
    /\ alive /\ tpc = "done" /\ cpc = "if_deeplab"
    /\ IF StrStr(modelname, "deeplab")
         THEN PosWrite(DeepLabDecode(pcell, << pbyte >>, cnum, pers)[1])
         ELSE UNCHANGED << pbyte, pprev, pwrites, fgrun >>
    /\ cpc' = "if_threshold"
    /\ UNCHANGED pcell
    /\ UNCHANGED << pixel, inval, output, out, maskpx, rawpx >>
    /\ UNCHANGED tpc /\ UNCHANGED roiVars /\ UNCHANGED metaVars /\ UNCHANGED labelVars
    /\ UNCHANGED << lock, grab, raw, cnt, buf, alive >>
    /\ UNCHANGED grabberVars /\ UNCHANGED mainVars

\* if (strstr(..., "body-pix") || strstr(..., "selfie")) { ... out[n] = ... }
IfThreshold ==
    /\ alive /\ tpc = "done" /\ cpc = "if_threshold"
    /\ IF StrStr(modelname, "body-pix") \/ StrStr(modelname, "selfie")
         THEN PosWrite(ThresholdDecode(pcell, << pbyte >>)[1])
         ELSE UNCHANGED << pbyte, pprev, pwrites, fgrun >>
    /\ cpc' = "if_segm"
    /\ UNCHANGED pcell
    /\ UNCHANGED << pixel, inval, output, out, maskpx, rawpx >>
    /\ UNCHANGED tpc /\ UNCHANGED roiVars /\ UNCHANGED metaVars /\ UNCHANGED labelVars
    /\ UNCHANGED << lock, grab, raw, cnt, buf, alive >>
    /\ UNCHANGED grabberVars /\ UNCHANGED mainVars

\* if (strstr(info.modelname, "segm_")) { ... out[n] = ... }; ti.maskns: the
\* decode of the cycle is over, the next Invoke is that of the next cycle
IfSegm ==
    /\ alive /\ tpc = "done" /\ cpc = "if_segm"
    /\ IF StrStr(modelname, "segm_")
         THEN PosWrite(SoftmaxDecode(pcell, << pbyte >>)[1])
         ELSE UNCHANGED << pbyte, pprev, pwrites, fgrun >>
    /\ cpc' = "invoke_n"
    /\ UNCHANGED pcell
    /\ UNCHANGED << pixel, inval, output, out, maskpx, rawpx >>
    /\ UNCHANGED tpc /\ UNCHANGED roiVars /\ UNCHANGED metaVars /\ UNCHANGED labelVars
    /\ UNCHANGED << lock, grab, raw, cnt, buf, alive >>
    /\ UNCHANGED grabberVars /\ UNCHANGED mainVars

\* the decode of position n over the cycles, dilate and erode left out
PositionDecode ==
    \/ PosInvoke
    \/ IfDeepLab
    \/ IfThreshold
    \/ IfSegm

\* main before init_tensorflow, default sizes, a model file of one of the
\* families without metadata; out[n] will hold any byte when it is first
\* read (info.ofinal is not initialised)
InitPosition ==
    /\ BeforeInitTf
    /\ width = DefaultWidth /\ height = DefaultHeight
    /\ input = [cols |-> DefaultInputSide, rows |-> DefaultInputSide]
    /\ made = NoBlob /\ metabuf = << >>
    /\ \E m \in ModelFiles :
         /\ modelname = m.name
         /\ labelmap = m.labelmap
         /\ ochans = m.chans
    /\ cpc = "invoke_n"
    /\ pcell = << >> /\ pbyte \in 0..255 /\ pprev = pbyte
    /\ pwrites = 0 /\ fgrun = 0

SpecPosition == InitPosition /\ [][init_tensorflow \/ PositionDecode]_vars

\* main before init_tensorflow, default sizes: a model without metadata, or
\* with a TFLITE_METADATA buffer, valid or with some validated fields wrong
InitMeta ==
    /\ BeforeInitTf
    /\ width = DefaultWidth /\ height = DefaultHeight
    /\ input = [cols |-> DefaultInputSide, rows |-> DefaultInputSide]
    /\ modelname = DefaultModelName /\ labelmap = << >> /\ ochans = 1
    /\ cpc = "frame"
    /\ PositionIdle
    /\ \/ made = NoBlob /\ metabuf = << >>
       \/ /\ made \in [mean : Floats, stdd : Floats, gap : 0..MaxGap, swap : BOOLEAN,
                        wrong : { w \in SUBSET FieldSet : Cardinality(w) <= MaxCorrupt },
                        delta : {1, 255}]
          /\ metabuf = Blob(made)

SpecMeta == InitMeta /\ [][init_tensorflow \/ TakeFrame \/ CalcNormalize]_vars

\* ------------------------------------------------------------------ types
FrameRec == [seq : 0..(MaxCnt + 1), comp : BOOLEAN, fh : BOOLEAN, fv : BOOLEAN]

TypeOK ==
    /\ gpc \in {"grab", "lock", "crit", "retrieving", "inc", "unlock", "exited", "crashed"}
    /\ done \in BOOLEAN /\ grabOk \in BOOLEAN /\ fails \in 0..FailLimit
    /\ nframes \in 0..MaxCnt
    /\ gw \in Bufs \cup {NULL}
    /\ lock \in {"none", "grabber", "main"}
    /\ grab \in Bufs \cup {NULL} /\ raw \in Bufs
    /\ cnt \in 0..(MaxCnt + 1) /\ oldcnt \in 0..MaxCnt
    /\ buf \in [Bufs -> FrameRec]
    /\ craw \in Bufs \cup {NULL, OutMat}
    /\ framesize \in 0..FrameBytes
    /\ mi \in 0..MaskCells
    /\ alive \in BOOLEAN

\* ------------------------------------------------------------------ claims
\* the camera buffer main reads or modifies at its position, NULL if none:
\* *capinfo.raw at the header copy, the data calcinfo.raw shares afterwards
MainBuffer ==
    IF mpc = "copy" THEN raw
    ELSE IF mpc \in {"check", "invoke", "decode", "resize", "compose", "flip", "convert"}
           THEN craw
           ELSE NULL

\* C1: the capture thread writes only into the buffer capinfo.grab names, and
\* only while it holds the lock; main works only on the buffer capinfo.raw
\* names; grab and raw never name the same buffer, so main never reads or
\* modifies the buffer a retrieve() is writing.
C1_BufferExclusion ==
    /\ grab # raw
    /\ gw # NULL => (gpc = "retrieving" /\ gw = grab /\ lock = "grabber")
    /\ MainBuffer # NULL => MainBuffer = raw
    /\ (gw # NULL /\ MainBuffer # NULL) => gw # MainBuffer

\* C1 witness: a retrieve() is writing one buffer while main composes the other
C1_Witness ==
    /\ gpc = "retrieving" /\ mpc = "compose"
    /\ gw = grab /\ craw = raw /\ gw # craw

\* C2: the frames the controller processes have strictly increasing sequence
\* numbers: no frame is processed twice, none older than an earlier one.
C2_StrictlyNewer ==
    \A i \in 1..(Len(processed) - 1) : processed[i] < processed[i + 1]

C4_LockOnlyForExchange ==
    /\ lock = "grabber" => gpc \in {"crit", "inc", "unlock"}
    /\ lock = "main" => mpc \in {"swap", "unlock", "stop_null", "stop_unlock"}

\* C4 amended: the capture thread holds the lock from its lock call to its
\* unlock call, which spans retrieve() and cnt++ but never the blocking
\* grab(); main holds it only for the handle exchange (or the stop request),
\* never during mask computation, composition, conversion or a sink write.
C4_LockNotAcrossGrabOrProcessing ==
    alive =>
      /\ lock = "grabber" <=> gpc \in {"crit", "retrieving", "inc", "unlock"}
      /\ lock = "main" <=> mpc \in {"swap", "unlock", "stop_null", "stop_unlock"}

\* C4 witness: retrieve() runs under the lock while main, holding no lock, is
\* inside calc_mask
C4_Witness ==
    /\ alive /\ lock = "grabber" /\ gpc = "retrieving" /\ mpc = "resize"

\* frames published so far: retrieve() has returned and cnt++ has counted it
Published == IF gpc = "inc" /\ ~done THEN nframes - 1 ELSE nframes

\* C5: when more than one frame was published since main last recorded the
\* sequence counter, the value it records next is larger by more than 1: it
\* is the number of frames published, the counter counting one per retrieve()
\* call.  The frames in between are held nowhere: there are two buffers,
\* each holding at most one frame, however many frames were published.
C5_Overload ==
    /\ [][(mpc = "observe" /\ mpc' = "lock" /\ Published - oldcnt > 1)
            => (oldcnt' - oldcnt > 1 /\ oldcnt' = Published)]_vars
    /\ [](grab # NULL => cnt = Published)
    /\ [](DOMAIN buf = Bufs /\ \A b \in Bufs : buf[b].seq \in 0..nframes)

\* C5 witness: the first value main records is 2 or more (no cycle ran
\* before: calcinfo.raw was never assigned), with as many frames retrieved
C5_Witness ==
    /\ mpc = "lock" /\ craw = NULL /\ oldcnt >= 2 /\ nframes >= 2
    /\ Cardinality({b \in Bufs : buf[b].seq # 0}) <= 1

\* C6: when the write loop of a cycle ends, the bytes the sink accepted in
\* that cycle are the frame's bytes, first to last, each once.
C6_WholeFrameOnce ==
    mpc = "report" => (sink.cyc = oldcnt /\ sink.bytes = FrameData)

\* the sink holds a non-empty proper prefix of the frame of the running cycle
PartialFrame ==
    /\ sink.cyc = oldcnt
    /\ Len(sink.bytes) \in 1..(FrameBytes - 1)
    /\ sink.bytes = SubSeq(FrameData, 1, Len(sink.bytes))

\* C7 as stated: the process never ends fatally with a non-empty proper
\* prefix of the cycle's frame in the sink.
C7_NoPartialFrameOnFatal ==
    mpc = "exit1" => ~PartialFrame

\* C7 amended: a failed check ends the process on the spot; after an
\* inference failure the sink holds no byte of that cycle's frame; a write
\* failure ends the process at the failing call, with the frame not yet
\* flushed, and bytes accepted by earlier partial writes stay in the sink;
\* once the process has ended fatally the sink never changes.
C7_FatalEndsCycle ==
    /\ [](exitLine # 0 <=> mpc = "exit1")
    /\ [](exitLine = InvokeCheckLine => sink.cyc # oldcnt)
    /\ [](exitLine = WriteCheckLine => framesize > 0)
    /\ [][mpc = "exit1" => (sink' = sink /\ mpc' = "exit1")]_vars

\* C7 witness: inference fails in a cycle after one whose frame was written
C7_Witness ==
    /\ mpc = "exit1" /\ exitLine = InvokeCheckLine
    /\ sink.cyc > 0 /\ sink.cyc < oldcnt /\ Len(sink.bytes) = FrameBytes

\* C8: a cycle whose buffer is empty (rows == 0 or cols == 0) goes from the
\* sanity check straight back to the wait for the next sequence number, and
\* between the swap and the check nothing touched mask store, small mask,
\* camera buffers, sink or exit state.
C8_EmptyFrameSkipped ==
    /\ [][(mpc = "check" /\ buf[craw].seq = 0 /\ mpc' # mpc) =>
            (mpc' = "wait" /\ UNCHANGED << mask, ofinal, sink, buf, processed,
                                           exitLine, alive, oldcnt >>)]_vars
    /\ [][(mpc \in {"lock", "swap", "unlock", "copy"}) =>
            UNCHANGED << mask, ofinal, sink, processed, exitLine >>]_vars

\* C8 witness: main is back at the wait after the check skipped an empty
\* buffer (calcinfo.raw still shares the camera buffer: nothing converted it)
C8_Witness ==
    /\ mpc = "wait" /\ oldcnt > 0
    /\ craw \in Bufs /\ buf[craw].seq = 0
    /\ alive

\* C9: repeated failure of the capture call ends the process: the capture
\* thread never makes another grab() call after FailLimit failures in a row
\* with the process still running its loops.
C9_RepeatedFailureFatal ==
    (fails >= FailLimit /\ gpc = "grab" /\ ~done) => (~alive \/ mpc = "exit1")

\* main has left its loop
LoopEnded ==
    mpc \in {"stop", "stop_null", "stop_unlock", "stopped", "returned", "exit1"}

\* the capture thread retrieves no frame and starts no capture call
NoFurtherCapture ==
    /\ buf' = buf
    /\ gpc' # "retrieving"
    /\ gpc' = "grab" => gpc = "grab"

\* C10 as stated: on every end of the loop, the fatal one included, the
\* Frame Source is stopped: from the stop request, or the fatal exit, on, no
\* further frame is retrieved and no new capture call is made.
C10_StoppedOnEveryExit ==
    [][(grab = NULL \/ mpc = "exit1") => NoFurtherCapture]_vars

\* C10 amended: when the loop ends by the stop flag, main requests the stop
\* (capinfo.grab = NULL); from then on the capture thread finishes at most
\* the grab() in flight, retrieves nothing and starts no capture call.  A
\* fatal error ends the loop by exit(1) with no stop request.  Either way
\* the capture thread ends: by itself, or with the process.
C10_StopRequestEndsCapture ==
    /\ [][grab = NULL => NoFurtherCapture]_vars
    /\ [](mpc \in {"stopped", "returned"} => grab = NULL)
    /\ [](mpc = "exit1" => grab # NULL)
    /\ LoopEnded ~> (gpc = "exited" \/ ~alive)

\* C10 witness: after the stop request the capture thread left its loop by
\* itself, the process still running
C10_Witness ==
    /\ grab = NULL /\ gpc = "exited" /\ done /\ alive /\ mpc = "stopped"

\* C11: for any positive frame and model-input sizes the ROI computed at
\* startup lies inside the frame: x >= 0, y >= 0, x + roiWidth <= frameWidth
\* and y + roiHeight <= frameHeight.
C11_RoiInsideFrame ==
    tpc \in {"done", "abort"} =>
        /\ roidim.x >= 0 /\ roidim.y >= 0
        /\ roidim.x + roidim.width <= width
        /\ roidim.y + roidim.height <= height

\* C12: for any positive frame and model-input sizes the ROI has the aspect
\* ratio of the model's input tensor, non-square inputs included:
\* roiWidth : roiHeight is modelWidth : modelHeight, roiWidth being cut to
\* an integer.
C12_RoiAspectOfModel ==
    tpc \in {"done", "abort"} =>
        roidim.width = TruncDiv(roidim.height * input.cols, input.rows)

\* the status parse_metadata returns when the field is the first wrong one
HopStatus(f) ==
    CASE f = "ident" -> 1
      [] f = "verslen" -> -1
      [] f = "verstext" -> -2
      [] f = "subcount" -> -3
      [] f = "tmcount" -> -4
      [] f = "pucount" -> -5
      [] f = "optid" -> -6
      [] f = "meanlen" -> -7
      [] f = "stdlen" -> -8

\* the field of w the traversal comes to first
FirstWrong(w) ==
    Fields[CHOOSE i \in 1..Len(Fields) :
             /\ Fields[i] \in w
             /\ \A j \in 1..(i - 1) : Fields[j] \notin w]

\* the parse_metadata call of init_tensorflow is over
MetaParsed == metabuf # << >> /\ tpc \notin {"tensors", "metadata"}

RECURSIVE Pow2(_)
Pow2(n) == IF n = 0 THEN 1 ELSE 2 * Pow2(n - 1)

\* m * 2^x (m >= 0) as a quotient in lowest terms
RECURSIVE Dyadic(_, _)
Dyadic(m, x) ==
    IF m = 0 THEN [num |-> 0, den |-> 1]
    ELSE IF x >= 0 THEN [num |-> m * Pow2(x), den |-> 1]
    ELSE IF m % 2 = 0 THEN Dyadic(m \div 2, x + 1)
    ELSE [num |-> m, den |-> Pow2(-x)]

\* the value of a finite, non-negative IEEE-754 float given by its 4 bytes
FloatValue(f) ==
    LET e == (f[4] % 128) * 2 + f[3] \div 128
        frac == (f[3] % 128) * 65536 + f[2] * 256 + f[1]
    IN  IF e = 0 THEN Dyadic(frac, -149) ELSE Dyadic(8388608 + frac, e - 150)

\* info.input holds (pixel - mean) / stddev, mean and stddev being quotients
NormalizedWith(mean, stddev) ==
    inval.num * (mean.den * stddev.num)
        = (pixel * mean.den - mean.num) * stddev.den * inval.den

\* the mean and stddev whose transform is the one calc_mask has built in:
\* p / 128 - 1 = (p - 128) / 128
DefaultMean == 128
DefaultStdd == 128
NormalizedDefault ==
    NormalizedWith([num |-> DefaultMean, den |-> 1], [num |-> DefaultStdd, den |-> 1])

\* C13: a metadata blob in which validated markers or counts are wrong makes
\* parse_metadata return at the first wrong one, with a non-zero status that
\* belongs to that hop and to no other, mean and stddev of the caller left as
\* they were; init_tensorflow goes on (nothing fatal), and the normalization
\* is the default one.
C13_MismatchAborts ==
    (MetaParsed /\ made.wrong # {}) =>
        /\ rv # 0
        /\ rv = HopStatus(FirstWrong(made.wrong))
        /\ \A f \in FieldSet \ {FirstWrong(made.wrong)} : rv # HopStatus(f)
        /\ tmpmean = Float0 /\ tmpstdd = Float0
        /\ alive /\ tpc # "abort"
        /\ cpc = "invoke" => NormalizedDefault

\* C13 witness: two fields are wrong, the status is that of the tensor
\* metadata count, and calc_mask has normalized a pixel afterwards
C13_Witness ==
    /\ MetaParsed /\ made.wrong = {"tmcount", "stdlen"}
    /\ rv = -4 /\ made.mean # Float0 /\ tmpmean = Float0
    /\ tpc = "done" /\ cpc = "invoke" /\ pixel = 255

\* C14: from a valid blob built from (m, s) parse_metadata returns 0 with
\* mean = m and stddev = s, whatever padding and array order the blob has.
C14_RoundTrip ==
    (MetaParsed /\ made.wrong = {}) =>
        /\ rv = 0
        /\ tmpmean = made.mean
        /\ tmpstdd = made.stdd

\* C14 witness: a padded blob with the std array in front of the mean array
\* and different values gave back both
C14_Witness ==
    /\ MetaParsed /\ made.wrong = {} /\ made.swap /\ made.gap = MaxGap
    /\ made.mean # made.stdd /\ made.mean # Float0 /\ made.stdd # Float0
    /\ rv = 0 /\ tmpmean = made.mean /\ tmpstdd = made.stdd

\* C19: the normalization before an inference is the affine transform of
\* the descriptor's (mean, stddev): the values parse_metadata extracted when
\* it returned 0 (stddev not 0), the default ones when the metadata is
\* absent or was not parsed.
C19_NormalizationOfDescriptor ==
    cpc = "invoke" =>
        IF metabuf # << >> /\ rv = 0
          THEN FloatValue(tmpstdd).num # 0 =>
                 NormalizedWith(FloatValue(tmpmean), FloatValue(tmpstdd))
          ELSE NormalizedDefault

\* ------------------------------------------------------- decode claims
\* the state calc_mask is in right after the decode loops (ti.maskns)
Decoded == tpc = "done" /\ cpc = "denoise"

\* class p holds the largest score of cell k (k from 1), the first of equals
ArgMaxIs(data, k, c, p) ==
    /\ p < c
    /\ \A j \in 0..(c - 1) :
          /\ Tmp(data, (k - 1) * c + j) <= Tmp(data, (k - 1) * c + p)
          /\ j < p => Tmp(data, (k - 1) * c + j) < Tmp(data, (k - 1) * c + p)

\* C15: with a DeepLab model, after the decode of any cycle, the first
\* included, the mask byte of every output position is 0 exactly when the
\* arg-max class of the output tensor at that position is the person index.
C15_DeepLabDecode ==
    (Decoded /\ StrStr(modelname, "deeplab")) =>
        \A k \in 1..Len(out) :
            (out[k] = 0) <=> ArgMaxIs(output, k, cnum, pers)

\* the two logits of cell k (k from 1)
LogitPair(data, k) == << Tmp(data, 2 * (k - 1)), Tmp(data, 2 * (k - 1) + 1) >>

\* C16 as stated: with a two-channel softmax model, after the decode, a
\* position with the logits (5.0, 1.0) is foreground (byte 0) and a position
\* with equal logits is background (byte not 0).
C16_AsStated ==
    (Decoded /\ StrStr(modelname, "segm_")) =>
        \A k \in 1..Len(out) :
            /\ LogitPair(output, k) = << 5, 1 >> => out[k] = 0
            /\ LogitPair(output, k) = << 1, 1 >> => out[k] # 0

\* C16, amended: channel 0 is the background and channel 1 the person, so the
\* decode of a two-channel softmax model gives a position whose second logit
\* is the larger (1.0, 5.0) the foreground decision, byte = previous byte
\* >> 3, and a position with (5.0, 1.0) or with equal logits the background
\* decision, byte = 224 + (previous byte >> 3).
C16_SoftmaxDecode ==
    [][(cpc = "decode" /\ cpc' = "denoise" /\ StrStr(modelname, "segm_")) =>
          \A k \in 1..Len(out) :
              LET pair == LogitPair(output, k)
              IN  IF pair[1] < pair[2]
                    THEN /\ out'[k] < 32
                         /\ out[k] # Uninit => out'[k] = out[k] \div 8
                    ELSE /\ out'[k] >= 224
                         /\ out[k] # Uninit => out'[k] = 224 + out[k] \div 8]_vars

\* after a decode one position has (1.0, 5.0) and the foreground decision,
\* another equal logits and the background decision
C16_Witness ==
    /\ Decoded /\ StrStr(modelname, "segm_")
    /\ \E k, t \in 1..Len(out) :
          /\ LogitPair(output, k) = << 1, 5 >> /\ out[k] < 32
          /\ LogitPair(output, t) = << 1, 1 >> /\ out[t] >= 224

\* the model name is taken by none of calc_mask's if statements
Unknown == ~Decodes(modelname)

\* the full-frame mask of the cycle is written (calc_mask has returned)
MaskDone == tpc = "done" /\ cpc \in {"compose", "composed"}

\* C17: with a model of no known family every cycle ends with a mask that is
\* background everywhere (no byte of the full-frame mask is 0), and the
\* process does not stop because of the family.
C17_UnknownAllBackground ==
    (Unknown /\ MaskDone) => \A c \in DOMAIN maskpx : maskpx[c] # 0

\* every cell of the output tensor has the person class as its arg-max
AllPerson == \A k \in 1..OutCells : ArgMaxIs(output, k, cnum, pers)

\* C18: default sizes, a DeepLab model whose output is person at every
\* position: the frame after bg.copyTo is the captured frame at every pixel,
\* inside and outside the ROI, in every cycle.
C18_FullForegroundUnchanged ==
    (tpc = "done" /\ cpc = "composed" /\ StrStr(modelname, "deeplab") /\ AllPerson) =>
        \A c \in DOMAIN rawpx : rawpx[c] = "cam"

\* the active label list has no "person" entry
NoPersonLabel == \A i \in 1..Len(labels) : labels[i] # "person"

\* C20: with a DeepLab model and an active label list without "person", from
\* the decode of a cycle to its end every byte of the small mask is a byte
\* other than 0, whatever the output tensor is, and so is every byte of the
\* full-frame mask once it is written: no position is foreground.
C20_NoPersonNoForeground ==
    (tpc = "done" /\ StrStr(modelname, "deeplab") /\ NoPersonLabel) =>
        /\ cpc \in {"denoise", "resize", "compose", "composed"} =>
              \A k \in 1..Len(out) : out[k] \in 1..255
        /\ MaskDone => \A c \in DOMAIN maskpx : maskpx[c] # 0

\* a label file without "person" was loaded, the tensor has the last class
\* ahead at every position, and the decode has made every byte background
C20_Witness ==
    /\ Decoded /\ StrStr(modelname, "deeplab") /\ NoPersonLabel
    /\ labels # BuiltinLabels /\ pers = cnum
    /\ \A k \in 1..Len(out) :
          /\ ArgMaxIs(output, k, cnum, cnum - 1)
          /\ out[k] >= 224

\* --------------------------------------------------------- cycle order
\* the step of the cycle a position of main's loop belongs to: the wait loop
\* and oldcnt = capinfo.cnt; the exchange under the lock up to the sanity
\* check; calc_mask; bg.copyTo and cv::flip; conversion, write loop and the
\* report that ends the pass
Stage(pc) ==
    CASE pc \in {"wait", "observe"} -> "WAIT"
      [] pc \in {"lock", "swap", "unlock", "copy", "check"} -> "SWAP"
      [] pc \in {"invoke", "decode", "resize"} -> "PROCESS"
      [] pc \in {"compose", "flip"} -> "COMPOSE"
      [] pc \in {"convert", "write", "report"} -> "OUTPUT"
      [] OTHER -> "END"

NextStage(st) ==
    CASE st = "WAIT" -> "SWAP"
      [] st = "SWAP" -> "PROCESS"
      [] st = "PROCESS" -> "COMPOSE"
      [] st = "COMPOSE" -> "OUTPUT"
      [] st = "OUTPUT" -> "WAIT"
      [] OTHER -> "END"

\* main goes from one step of the cycle to another one (not to the end of
\* the loop)
StageChange == Stage(mpc') # Stage(mpc) /\ Stage(mpc') # "END"

\* C21 as stated: every cycle goes through WAIT, SWAP, PROCESS, COMPOSE,
\* OUTPUT and back to WAIT: whenever main leaves a step of the cycle, the
\* step it enters is the next one of that order.
C21_AsStated ==
    [][StageChange => Stage(mpc') = NextStage(Stage(mpc))]_vars

\* a write() call has put bytes of the frame yuyv into the sink
SinkWrite == mpc = "write" /\ sink' # sink

\* C21, amended: the steps of a cycle occur in the order WAIT, SWAP, PROCESS,
\* COMPOSE, OUTPUT, WAIT, with two shorter cycles: an empty frame ends the
\* cycle after SWAP, and with the filter switched off the cycle goes from
\* SWAP to the mirroring, without mask computation and blending.  The wait
\* is left only when the sequence counter differs from the recorded value;
\* with the filter on, a sink write comes after the mask was computed from
\* the frame written and after that frame was blended, and the mirroring
\* comes after the blending; nothing follows the mirroring but the output.
C21_CycleOrder ==
    /\ [][StageChange =>
            \/ Stage(mpc') = NextStage(Stage(mpc))
            \/ mpc = "check" /\ mpc' = "wait" /\ buf[craw].seq = 0
            \/ mpc = "check" /\ mpc' = "flip" /\ buf[craw].seq # 0 /\ ~filterActive]_vars
    /\ [][(mpc = "wait" /\ mpc' # "wait") => cnt # oldcnt]_vars
    /\ [][(SinkWrite /\ filterActive) =>
            /\ yuyv.comp
            /\ ofinal = yuyv.seq
            /\ \A i \in 1..MaskCells : mask[i] = yuyv.seq]_vars
    /\ [][(mpc = "flip" /\ mpc' # mpc) =>
            /\ mpc' = "convert"
            /\ filterActive => buf[craw].comp]_vars
    /\ [][(mpc' = "compose" /\ mpc # "compose") => mpc = "resize"]_vars

\* C21 witness: a cycle with the filter on went through every step, the
\* whole blended and mirrored frame is in the sink, and main waits again
C21_Witness ==
    /\ alive /\ mpc = "wait" /\ filterActive
    /\ sink.cyc = oldcnt /\ sink.bytes = FrameData
    /\ yuyv.comp /\ yuyv.fh /\ yuyv.seq = ofinal
    /\ \A i \in 1..MaskCells : mask[i] = yuyv.seq

\* ----------------------------------------------- one position's decode
\* the if statement that has just been passed wrote out[n]
WroteDeepLab ==
    tpc = "done" /\ cpc = "if_threshold" /\ StrStr(modelname, "deeplab")
WroteThreshold ==
    /\ tpc = "done" /\ cpc = "if_segm"
    /\ StrStr(modelname, "body-pix") \/ StrStr(modelname, "selfie")
WroteSegm ==
    tpc = "done" /\ cpc = "invoke_n" /\ pcell # << >> /\ StrStr(modelname, "segm_")

\* the decision of each branch for the position, from the tensor's values:
\* the person class is the first largest score and above the starting
\* maximum (or class 0 is the person and no score is above it); the
\* probability is above the threshold; the person logit is the larger
DeepLabFg ==
    \/ ArgMaxIs(pcell, 1, cnum, pers) /\ Tmp(pcell, pers) > MaxvalStart
    \/ pers = 0 /\ \A j \in 0..(cnum - 1) : Tmp(pcell, j) <= MaxvalStart
ThresholdFg == Tmp(pcell, 0) > Threshold
SegmFg == Tmp(pcell, 0) < Tmp(pcell, 1)

\* the byte a branch leaves for its decision
SmoothedFor(fg) ==
    IF fg
      THEN /\ pbyte = pprev \div 8
           /\ pbyte = 0 <=> pprev < 8
           /\ fgrun >= 1
      ELSE /\ pbyte = 224 + pprev \div 8
           /\ pbyte >= 224
           /\ fgrun = 0

\* C22: each decode branch leaves (val & 0xE0) | (previous byte >> 3) in the
\* position, val being 0 for a foreground and 255 for a background decision:
\* a background decision gives a byte >= 224, a foreground decision gives
\* byte 0 exactly when the previous byte was below 8; without dilate and
\* erode, three foreground decisions in a row leave byte 0 whatever the byte
\* was, and a foreground decision never leaves 0 from a previous byte of 8
\* or more.
C22_Smoothing ==
    /\ WroteDeepLab => SmoothedFor(DeepLabFg)
    /\ WroteThreshold => SmoothedFor(ThresholdFg)
    /\ WroteSegm => SmoothedFor(SegmFg)
    /\ fgrun >= 3 => pbyte = 0
    /\ (fgrun >= 1 /\ pbyte = 0) => pprev < 8

\* C22 witness: the third foreground decision in a row has brought the
\* position to 0 from a byte that was not 0 yet
C22_Witness ==
    /\ tpc = "done" /\ fgrun = 3
    /\ pbyte = 0 /\ pprev \in 1..7

\* C23: whatever the model name, at most one of the three decode branches
\* writes the small mask in a cycle: a position of the small mask is written
\* at most once between one Invoke and the next.
C23_SingleDecode == pwrites <= 1

=============================================================================
